---- MODULE Spec2Model ----
(***************************************************************************)
(* Model of moss' state identifiers and selections (moss/src/state.rs) and *)
(* of the boot synchronisation (moss/src/client/boot.rs).                  *)
(*                                                                         *)
(* Text (paths, command line snippets) is a sequence of one-character      *)
(* strings, so that joining, matching and formatting are computed.         *)
(* Integer widths are scaled: an i32 has I32Bits bits and an i64 twice as  *)
(* many, which keeps the relation between the two types of the source.     *)
(***************************************************************************)
EXTENDS Integers, Sequences, FiniteSets, TLC

\* ------------------------------------------------------------------ bounds

\* Scaled width of i32; i64 is twice as wide.
I32Bits == 3
\* Longest layout list handed to discovery / synchronize.
MaxLayouts == 2
\* Most kernels the external discovery schema reports.
MaxKernels == 3
\* Most selections pushed into one State.
MaxSelections == 2
\* Most consecutive Id::next calls.
MaxCalls == 2
\* Most times each discovery function is called on the same input.
MaxRuns == 2

\* ------------------------------------------------------------------ integers

RECURSIVE Pow2(_)
Pow2(n) == IF n = 0 THEN 1 ELSE 2 * Pow2(n - 1)

I32Min == -Pow2(I32Bits - 1)
I32Max == Pow2(I32Bits - 1) - 1
I32Range == I32Min..I32Max

I64Bits == 2 * I32Bits
I64Min == -Pow2(I64Bits - 1)
I64Max == Pow2(I64Bits - 1) - 1
I64Range == I64Min..I64Max

\* ------------------------------------------------------------------ text

Slash == "/"

DigitChars == <<"0", "1", "2", "3", "4", "5", "6", "7", "8", "9">>

RECURSIVE Digits(_)
\* The decimal digits of a natural number, most significant first.
Digits(n) ==
    IF n < 10 THEN <<DigitChars[n + 1]>>
    ELSE Digits(n \div 10) \o <<DigitChars[(n % 10) + 1]>>

\* Display of a signed integer: a minus sign for negatives, then the digits.
ToDecimal(n) == IF n < 0 THEN <<"-">> \o Digits(-n) ELSE Digits(n)

\* ------------------------------------------------------------------ state

VARIABLES
    \* moss/src/state.rs: Id
    overflow_checks, \* build profile: TRUE panics on overflow, FALSE wraps
    id0,             \* the id the calls started from
    prev,            \* the receiver of the latest next()
    cur,             \* the latest id
    calls,           \* number of next() calls made
    panicked,        \* an arithmetic overflow panic ended the run
    \* moss/src/state.rs: State.selections
    selections,      \* Vec<Selection>
    origin,          \* per selection, the constructor that built it
    \* moss/src/client/boot.rs: inputs
    root,            \* install.root
    sid,             \* state.id
    layouts,         \* &[(Id, Layout)], the layout entries in order
    \* discovery called on its own
    kruns,           \* results of kernel_files_from_state, one per call
    bruns,           \* results of boot_files_from_state, one per call
    \* synchronize
    pc,
    is_native,
    kernels,
    booty_bits,
    discovered,
    entries,
    idx,
    snipFailed,
    manager,
    log,
    result

idVars == <<overflow_checks, id0, prev, cur, calls, panicked>>
selVars == <<selections, origin>>
inVars == <<root, sid, layouts>>
discVars == <<kruns, bruns>>
syncVars == <<pc, is_native, kernels, booty_bits, discovered, entries, idx,
              snipFailed, manager, log, result>>
vars == <<idVars, selVars, inVars, discVars, syncVars>>

\* Values of the variables a specification does not use.
IdleId ==
    /\ overflow_checks = FALSE /\ id0 = 0 /\ prev = 0 /\ cur = 0
    /\ calls = 0 /\ panicked = FALSE
IdleSel == selections = <<>> /\ origin = <<>>
IdleIn == root = <<Slash>> /\ sid = 0 /\ layouts = <<>>
IdleDisc == kruns = <<>> /\ bruns = <<>>
IdleSync ==
    /\ pc = "idle" /\ is_native = FALSE /\ kernels = <<>> /\ booty_bits = <<>>
    /\ discovered = <<>> /\ entries = <<>> /\ idx = 0 /\ snipFailed = {}
    /\ manager = "none" /\ log = <<>> /\ result = "none"

\* ------------------------------------------------------------------ state.rs: Id

\* A next() that saturates at the largest id instead of overflowing.
IdNextSaturating(id, checks) ==
    [panic |-> FALSE, val |-> IF id = I64Max THEN I64Max ELSE id + 1]

\* Id::next: self.0 + 1 on an i64. At i64::MAX the addition overflows: a
\* build with overflow checks panics, one without wraps to i64::MIN.
IdNext(id, checks) ==
    IF id = I64Max
    THEN IF checks THEN [panic |-> TRUE, val |-> id]
                   ELSE [panic |-> FALSE, val |-> I64Min]
    ELSE [panic |-> FALSE, val |-> id + 1]

InitId ==
    /\ overflow_checks \in BOOLEAN
    /\ id0 \in I64Range
    /\ prev = id0 /\ cur = id0
    /\ calls = 0 /\ panicked = FALSE
    /\ IdleSel /\ IdleIn /\ IdleDisc /\ IdleSync

\* cur = cur.next()
CallNext ==
    /\ ~panicked
    /\ calls < MaxCalls
    /\ LET r == IdNext(cur, overflow_checks) IN
        /\ panicked' = r.panic
        /\ cur' = r.val
    /\ prev' = cur
    /\ calls' = calls + 1
    /\ UNCHANGED <<overflow_checks, id0, selVars, inVars, discVars, syncVars>>

NextId == CallNext

SpecId == InitId /\ [][NextId]_vars

\* C8 (as stated): for all ids, two next() calls give id + 2, and next is
\* injective.
C8_NextTwiceAllIds ==
    /\ calls = 2 => (~panicked /\ cur = id0 + 2)
    /\ (calls >= 1 /\ ~panicked) =>
           \A b \in I64Range :
               LET r == IdNext(b, overflow_checks) IN
               (~r.panic /\ r.val = cur) => b = prev

\* C8 (amended): for every id of at most i64::MAX - 2, two next() calls
\* return id + 2; and wherever next returns a value it is injective: the
\* only id whose next() is the value just returned is the receiver.
C8_NextTwiceBelowMax ==
    /\ (calls = 2 /\ id0 + 2 <= I64Max) => (~panicked /\ cur = id0 + 2)
    /\ (calls >= 1 /\ ~panicked) =>
           \A b \in I64Range :
               LET r == IdNext(b, overflow_checks) IN
               (~r.panic /\ r.val = cur) => b = prev

\* Two calls were made from the largest id for which id + 2 still fits.
C8_Witness == calls = 2 /\ ~panicked /\ id0 = I64Max - 2 /\ cur = I64Max

\* ------------------------------------------------------------------ state.rs: Selection

Packages == {"pkg-a", "pkg-b", "pkg-c"}
Reasons == {"required by pkg-a"}

None == <<>>
Some(x) == <<x>>

\* Selection::explicit
SelectionExplicit(package) ==
    [package |-> package, explicit |-> TRUE, reason |-> None]

\* Selection::transitive
SelectionTransitive(package) ==
    [package |-> package, explicit |-> TRUE, reason |-> None]

\* Selection::reason: the reason set, every other field kept (..self)
SelectionReason(self, reason) ==
    [self EXCEPT !.reason = Some(reason)]

InitSel ==
    /\ selections = <<>> /\ origin = <<>>
    /\ IdleId /\ IdleIn /\ IdleDisc /\ IdleSync

\* selections.push(Selection::explicit(p))
PushExplicit ==
    /\ Len(selections) < MaxSelections
    /\ \E p \in Packages :
           /\ selections' = Append(selections, SelectionExplicit(p))
           /\ origin' = Append(origin, "explicit")
    /\ UNCHANGED <<idVars, inVars, discVars, syncVars>>

\* selections.push(Selection::transitive(p))
PushTransitive ==
    /\ Len(selections) < MaxSelections
    /\ \E p \in Packages :
           /\ selections' = Append(selections, SelectionTransitive(p))
           /\ origin' = Append(origin, "transitive")
    /\ UNCHANGED <<idVars, inVars, discVars, syncVars>>

\* selections[i] = selections[i].reason(r)
GiveReason ==
    /\ \E i \in 1..Len(selections), r \in Reasons :
           /\ selections[i].reason = None
           /\ selections' =
                  [selections EXCEPT ![i] = SelectionReason(selections[i], r)]
    /\ UNCHANGED <<origin, idVars, inVars, discVars, syncVars>>

NextSel == PushExplicit \/ PushTransitive \/ GiveReason

SpecSel == InitSel /\ [][NextSel]_vars

\* C9: the constructors are mutually exclusive markers: a selection built by
\* Selection::explicit has explicit = TRUE and one built by
\* Selection::transitive has explicit = FALSE.
C9_ConstructorsExclusive ==
    \A i \in 1..Len(selections) :
        selections[i].explicit = (origin[i] = "explicit")

\* ------------------------------------------------------------------ paths

UsrDir == <<"u", "s", "r">>
LibDir == <<"l", "i", "b">>

\* Path::is_absolute (unix): the path starts with the separator.
IsAbsolute(p) == Len(p) > 0 /\ p[1] = Slash

\* Path::join, as PathBuf::push does it: an absolute argument replaces the
\* base, otherwise it is appended after a separator the base may already
\* end with.
Join(base, p) ==
    IF IsAbsolute(p) THEN p
    ELSE IF Len(base) = 0 \/ base[Len(base)] = Slash THEN base \o p
    ELSE base \o <<Slash>> \o p

\* ------------------------------------------------------------------ fnmatch

RECURSIVE StripGroups(_, _)
\* The pattern with each capture group "(name:glob)" replaced by its glob.
\* inName is TRUE between "(" and ":".
StripGroups(p, inName) ==
    IF p = <<>> THEN <<>>
    ELSE IF inName
         THEN StripGroups(Tail(p), Head(p) # ":")
    ELSE IF Head(p) = "(" THEN StripGroups(Tail(p), TRUE)
    ELSE IF Head(p) = ")" THEN StripGroups(Tail(p), FALSE)
    ELSE <<Head(p)>> \o StripGroups(Tail(p), FALSE)

Count(p, c) == Cardinality({i \in 1..Len(p) : p[i] = c})

\* Pattern::from_str: fails on an unbalanced group, else the compiled glob.
PatternFromStr(p) ==
    IF Count(p, "(") # Count(p, ")")
    THEN [ok |-> FALSE, glob |-> <<>>]
    ELSE [ok |-> TRUE, glob |-> StripGroups(p, FALSE)]

RECURSIVE GlobMatch(_, _)
\* The whole text matches the glob; "*" stands for any run of characters
\* other than the separator.
GlobMatch(g, t) ==
    IF g = <<>> THEN t = <<>>
    ELSE IF Head(g) = "*"
         THEN \/ GlobMatch(Tail(g), t)
              \/ (t # <<>> /\ Head(t) # Slash /\ GlobMatch(g, Tail(t)))
    ELSE t # <<>> /\ Head(t) = Head(g) /\ GlobMatch(Tail(g), Tail(t))

\* pattern.match_path(target).is_some()
MatchPath(pattern, target) == GlobMatch(pattern.glob, target)

KernelPatternText == <<"l", "i", "b", "/", "k", "e", "r", "n", "e", "l", "/", "(", "v", "e", "r", "s", "i", "o", "n", ":", "*", ")", "/", "*">>
SystemdPatternText == <<"l", "i", "b", "*", "/", "s", "y", "s", "t", "e", "m", "d", "/", "b", "o", "o", "t", "/", "e", "f", "i", "/", "*", ".", "e", "f", "i">>

\* ------------------------------------------------------------------ layouts

KernelImage == <<"l", "i", "b", "/", "k", "e", "r", "n", "e", "l", "/", "6", ".", "6", "/", "v", "m", "l", "i", "n", "u", "z">>
BootEfi == <<"l", "i", "b", "/", "s", "y", "s", "t", "e", "m", "d", "/", "b", "o", "o", "t", "/", "e", "f", "i", "/", "b", "o", "o", "t", ".", "e", "f", "i">>
Lib64Efi == <<"l", "i", "b", "6", "4", "/", "s", "y", "s", "t", "e", "m", "d", "/", "b", "o", "o", "t", "/", "e", "f", "i", "/", "x", ".", "e", "f", "i">>
Readme == <<"s", "h", "a", "r", "e", "/", "d", "o", "c", "/", "r", "e", "a", "d", "m", "e">>
NestedKernelFile == <<"l", "i", "b", "/", "k", "e", "r", "n", "e", "l", "/", "6", ".", "6", "/", "m", "/", "x", ".", "k", "o">>
AbsoluteKernel == <<"/", "l", "i", "b", "/", "k", "e", "r", "n", "e", "l", "/", "6", ".", "6", "/", "v", "m", "l", "i", "n", "u", "z">>

Kinds == {"Regular", "Symlink", "Directory"}

LayoutEntry(kind, target) == [kind |-> kind, target |-> target]

\* The layout entries synchronize is run on.
SyncEntries ==
    {LayoutEntry(k, t) : k \in Kinds, t \in {KernelImage}}
        \cup {LayoutEntry(k, t) : k \in {"Regular", "Symlink"}, t \in {BootEfi}}
        \cup {LayoutEntry("Regular", Readme)}

\* The layout entries discovery alone is run on.
DiscoveryEntries ==
    {LayoutEntry(k, t) : k \in Kinds,
        t \in {KernelImage, BootEfi, Lib64Efi, Readme, NestedKernelFile, AbsoluteKernel}}

RECURSIVE SeqsUpTo(_, _)
\* The sequences over S of length at most n.
SeqsUpTo(S, n) ==
    IF n = 0 THEN {<<>>}
    ELSE LET shorter == SeqsUpTo(S, n - 1) IN
         shorter \cup {Append(q, x) : q \in shorter, x \in S}

NativeRoot == <<Slash>>
ImageRoot == <<"/", "m", "n", "t">>
\* An image root that differs from "/" only as text.
DoubleSlashRoot == <<Slash, Slash>>
Roots == {NativeRoot, ImageRoot, DoubleSlashRoot}

\* ------------------------------------------------------------------ boot.rs: discovery

Installation(r) == [root |-> r]

\* KernelCandidate { path, _layout }
KernelCandidate(path, layout) == [path |-> path, _layout |-> layout]

RECURSIVE KernelLoopRegularOnly(_, _, _, _, _)
KernelLoopRegularOnly(install, ls, pattern, i, kernel_entries) ==
    IF i > Len(ls) THEN kernel_entries
    ELSE LET path == ls[i] IN
         KernelLoopRegularOnly(install, ls, pattern, i + 1,
             IF path.kind = "Regular" /\ MatchPath(pattern, path.target)
             THEN Append(kernel_entries,
                      KernelCandidate(Join(Join(install.root, UsrDir), path.target), path))
             ELSE kernel_entries)

\* kernel_files_from_state with the Symlink arm left out.
KernelFilesRegularOnly(install, ls, pattern) ==
    KernelLoopRegularOnly(install, ls, pattern, 1, <<>>)

RECURSIVE KernelLoop(_, _, _, _, _)
\* for (_, path) in layouts.iter() { match &path.entry { .. } }, from the
\* i-th entry on
KernelLoop(install, ls, pattern, i, kernel_entries) ==
    IF i > Len(ls) THEN kernel_entries
    ELSE LET path == ls[i] IN
         KernelLoop(install, ls, pattern, i + 1,
             CASE path.kind = "Regular" ->
                      IF MatchPath(pattern, path.target)
                      THEN Append(kernel_entries,
                               KernelCandidate(Join(Join(install.root, UsrDir), path.target), path))
                      ELSE kernel_entries
               [] path.kind = "Symlink" ->
                      IF MatchPath(pattern, path.target)
                      THEN Append(kernel_entries,
                               KernelCandidate(Join(Join(install.root, UsrDir), path.target), path))
                      ELSE kernel_entries
               [] OTHER -> kernel_entries)

\* kernel_files_from_state
kernel_files_from_state(install, ls, pattern) ==
    KernelLoop(install, ls, pattern, 1, <<>>)

RECURSIVE BootLoop(_, _, _, _, _)
\* for (_, path) in layouts.iter() { if let Regular(_, target) = .. }, from
\* the i-th entry on
BootLoop(install, ls, pattern, i, rets) ==
    IF i > Len(ls) THEN rets
    ELSE LET path == ls[i] IN
         BootLoop(install, ls, pattern, i + 1,
             IF path.kind = "Regular"
             THEN IF MatchPath(pattern, path.target)
                  THEN Append(rets, Join(Join(install.root, UsrDir), path.target))
                  ELSE rets
             ELSE rets)

\* boot_files_from_state
boot_files_from_state(install, ls, pattern) ==
    BootLoop(install, ls, pattern, 1, <<>>)

InitDisc ==
    /\ root \in Roots
    /\ layouts \in SeqsUpTo(DiscoveryEntries, MaxLayouts)
    /\ sid = 0
    /\ kruns = <<>> /\ bruns = <<>>
    /\ IdleId /\ IdleSel /\ IdleSync

\* kernel_files_from_state(install, layouts, &pattern) with the kernel pattern
CallKernelFiles ==
    /\ Len(kruns) < MaxRuns
    /\ kruns' = Append(kruns,
           kernel_files_from_state(Installation(root), layouts,
                                   PatternFromStr(KernelPatternText)))
    /\ UNCHANGED <<bruns, idVars, selVars, inVars, syncVars>>

\* boot_files_from_state(install, layouts, &systemd) with the asset pattern
CallBootFiles ==
    /\ Len(bruns) < MaxRuns
    /\ bruns' = Append(bruns,
           boot_files_from_state(Installation(root), layouts,
                                 PatternFromStr(SystemdPatternText)))
    /\ UNCHANGED <<kruns, idVars, selVars, inVars, syncVars>>

NextDisc == CallKernelFiles \/ CallBootFiles

SpecDisc == InitDisc /\ [][NextDisc]_vars

\* What the claim expects: root/usr/<target>, written out.
UnderUsr(r, target) ==
    (IF r[Len(r)] = Slash THEN r ELSE r \o <<Slash>>) \o UsrDir \o <<Slash>> \o target

KernelDirPrefix == <<"l", "i", "b", "/", "k", "e", "r", "n", "e", "l", "/">>
EfiDirPrefix ==
    <<"s", "y", "s", "t", "e", "m", "d", "/", "b", "o", "o", "t", "/", "e", "f", "i", "/">>

\* lib/kernel/<version>/<file>: two more components, neither crossing a
\* separator.
IsKernelTarget(t) ==
    /\ Len(t) > Len(KernelDirPrefix)
    /\ SubSeq(t, 1, Len(KernelDirPrefix)) = KernelDirPrefix
    /\ Count(SubSeq(t, Len(KernelDirPrefix) + 1, Len(t)), Slash) = 1

\* lib<any>/systemd/boot/efi/<file>.efi
IsAssetTarget(t) ==
    /\ Len(t) >= Len(LibDir)
    /\ SubSeq(t, 1, Len(LibDir)) = LibDir
    /\ Count(t, Slash) = 4
    /\ \E i \in 1..Len(t) :
           /\ t[i] = Slash
           /\ Count(SubSeq(t, 1, i), Slash) = 1
           /\ LET rest == SubSeq(t, i + 1, Len(t)) IN
              /\ Len(rest) >= Len(EfiDirPrefix) + 4
              /\ SubSeq(rest, 1, Len(EfiDirPrefix)) = EfiDirPrefix
              /\ SubSeq(rest, Len(rest) - 3, Len(rest)) = <<".", "e", "f", "i">>

KernelWanted(l) == l.kind \in {"Regular", "Symlink"} /\ IsKernelTarget(l.target)
AssetWanted(l) == l.kind = "Regular" /\ IsAssetTarget(l.target)

ExpectedKernels(r, ls) ==
    LET kept == SelectSeq(ls, KernelWanted) IN
    [i \in 1..Len(kept) |-> [path |-> UnderUsr(r, kept[i].target), _layout |-> kept[i]]]

ExpectedAssets(r, ls) ==
    LET kept == SelectSeq(ls, AssetWanted) IN
    [i \in 1..Len(kept) |-> UnderUsr(r, kept[i].target)]

\* C10: every run of kernel discovery returns, in layout order and with
\* duplicates kept, the Regular and Symlink entries whose target matches the
\* kernel pattern; every run of asset discovery the Regular entries whose
\* target matches the asset pattern; each path is root/usr/<target>; repeated
\* runs agree; and no run changes the layout list or the installation.
C10_DiscoveryIsFilterMap ==
    /\ [](/\ \A i \in 1..Len(kruns) : kruns[i] = ExpectedKernels(root, layouts)
          /\ \A i \in 1..Len(bruns) : bruns[i] = ExpectedAssets(root, layouts))
    /\ [][layouts' = layouts /\ root' = root]_vars

\* Both discoveries ran twice on a list holding a kernel symlink, then a
\* boot-loader asset, and each found its entry.
C10_Witness ==
    /\ Len(kruns) = 2 /\ Len(bruns) = 2
    /\ Len(layouts) = 2
    /\ layouts[1] = LayoutEntry("Symlink", KernelImage)
    /\ layouts[2].kind = "Regular" /\ layouts[2].target \in {BootEfi, Lib64Efi}
    /\ Len(kruns[2]) = 1 /\ Len(bruns[2]) = 1

\* ------------------------------------------------------------------ boot.rs: synchronize

Outcomes == {"ok", "err"}

Call(name, outcome) == [call |-> name, ok |-> (outcome = "ok")]

Last(q) == q[Len(q)]

Errors == {"Err:Blsforme", "Err:IO", "Err:OsRelease", "Err:Pattern", "Err:IncompleteKernel"}

\* let is_native = root.to_string_lossy() == "/"
IsNativeAlways(r) == TRUE
IsNative(r) == r = <<Slash>>

\* if kernels.is_empty() { return Ok(()) }  if booty_bits.is_empty() { return Ok(()) }
EarlyExitNeedsBoth(ks, bb) == Len(ks) = 0 /\ Len(bb) = 0
EarlyExit(ks, bb) == Len(ks) = 0 \/ Len(bb) = 0

\* The ? operator: "continue" on Ok, else the error converted by #[from].
TryAbsorbs(outcome, error) == "continue"
TryIo(outcome, error) == IF outcome = "ok" THEN "continue" ELSE error
TryOsRelease(outcome, error) == IF outcome = "ok" THEN "continue" ELSE error
TryDiscover(outcome, error) == IF outcome = "ok" THEN "continue" ELSE error
TryMount(outcome, error) == IF outcome = "ok" THEN "continue" ELSE error
TrySync(outcome, error) == IF outcome = "ok" THEN "continue" ELSE error

\* if let Err(e) = entry.load_cmdline_snippets(&config) { log::warn!(..) }
SnippetErrorPropagates(outcome) == IF outcome = "ok" THEN "continue" ELSE "Err:Blsforme"
OnSnippetResult(outcome) == "continue"

\* Err(_) => return Ok(())
ManagerFailurePropagates == "Err:Blsforme"
OnManagerFailure == "Ok"

\* i32::from(state.id): the id converted to the i32 the entry carries. An id
\* that fits is kept; for one that does not fit, the result is some i32.
I32FromId(id) == IF id \in I32Range THEN {id} ELSE I32Range

FstxName == <<"-", "-", "-", "f", "s", "t", "x", "-", "-", "-">>
FstxPrefix == <<"m", "o", "s", "s", ".", "f", "s", "t", "x", "=">>

\* Entry::new(d)
EntryNew(d) == [kernel |-> d, cmdline |-> <<>>, state_id |-> None]
\* .with_cmdline(CmdlineEntry { name, snippet })
WithCmdline(e, name, snippet) ==
    [e EXCEPT !.cmdline = Append(@, [name |-> name, snippet |-> snippet])]
\* .with_state_id(id)
WithStateId(e, id) == [e EXCEPT !.state_id = Some(id)]

\* The closure of the map over discovered, with id = i32::from(state.id)
BuildEntry(d, id) ==
    WithStateId(WithCmdline(EntryNew(d), FstxName, FstxPrefix \o ToDecimal(id)), id)

\* What load_cmdline_snippets adds to an entry when it succeeds.
VendorSnippet == [name |-> <<"v", "e", "n", "d", "o", "r">>, snippet |-> <<"q", "u", "i", "e", "t">>]

Finish(r) == pc' = "done" /\ result' = r

\* The ids synchronize is run with: the smallest i64, ids around zero, the
\* largest i32 and the first id above it.
SampleIds == {I64Min, -1, 0, I32Max, I32Max + 1}

InitSyncVars ==
    /\ pc = "start" /\ is_native = FALSE /\ kernels = <<>> /\ booty_bits = <<>>
    /\ discovered = <<>> /\ entries = <<>> /\ idx = 0 /\ snipFailed = {}
    /\ manager = <<>> /\ log = <<>> /\ result = "none"

Init ==
    /\ root \in Roots
    /\ sid \in SampleIds
    /\ layouts \in SeqsUpTo(SyncEntries, MaxLayouts)
    /\ InitSyncVars
    /\ IdleId /\ IdleSel /\ IdleDisc

InitTag ==
    /\ root \in Roots
    /\ sid \in I64Range
    /\ layouts \in SeqsUpTo(SyncEntries, MaxLayouts)
    /\ InitSyncVars
    /\ IdleId /\ IdleSel /\ IdleDisc

\* Lines 111-135: classify the root, compile the patterns, discover, and
\* leave early when there is no kernel or no boot-loader asset.
Begin ==
    /\ pc = "start"
    /\ LET install == Installation(root)
           pattern == PatternFromStr(KernelPatternText)
           systemd == PatternFromStr(SystemdPatternText)
       IN
       /\ is_native' = IsNative(install.root)
       /\ IF ~pattern.ok \/ ~systemd.ok
          THEN /\ Finish("Err:Pattern")
               /\ UNCHANGED <<kernels, booty_bits>>
          ELSE /\ booty_bits' = boot_files_from_state(install, layouts, systemd)
               /\ kernels' = kernel_files_from_state(install, layouts, pattern)
               /\ IF EarlyExit(kernels', booty_bits')
                  THEN Finish("Ok")
                  ELSE pc' = "read_os_release" /\ UNCHANGED result
    /\ UNCHANGED <<discovered, entries, idx, snipFailed, manager, log>>
    /\ UNCHANGED <<idVars, selVars, inVars, discVars>>

\* Line 138: fs::read_to_string(root/usr/lib/os-release)?
ReadOsRelease ==
    /\ pc = "read_os_release"
    /\ \E o \in Outcomes :
           /\ log' = Append(log, Call("read_to_string", o))
           /\ LET t == TryIo(o, "Err:IO") IN
              IF t = "continue"
              THEN pc' = "parse_os_release" /\ UNCHANGED result
              ELSE Finish(t)
    /\ UNCHANGED <<is_native, kernels, booty_bits, discovered, entries, idx,
                   snipFailed, manager>>
    /\ UNCHANGED <<idVars, selVars, inVars, discVars>>

\* Line 139: OsRelease::from_str(&fp)?
ParseOsRelease ==
    /\ pc = "parse_os_release"
    /\ \E o \in Outcomes :
           /\ log' = Append(log, Call("OsRelease::from_str", o))
           /\ LET t == TryOsRelease(o, "Err:OsRelease") IN
              IF t = "continue"
              THEN pc' = "discover" /\ UNCHANGED result
              ELSE Finish(t)
    /\ UNCHANGED <<is_native, kernels, booty_bits, discovered, entries, idx,
                   snipFailed, manager>>
    /\ UNCHANGED <<idVars, selVars, inVars, discVars>>

\* Line 143: schema.discover_system_kernels(kernels.iter())?
DiscoverSystemKernels ==
    /\ pc = "discover"
    /\ \E o \in Outcomes :
           /\ log' = Append(log, Call("discover_system_kernels", o))
           /\ IF o = "ok"
              THEN \E n \in 0..MaxKernels :
                       discovered' = [i \in 1..n |-> [version |-> i]]
              ELSE UNCHANGED discovered
           /\ LET t == TryDiscover(o, "Err:Blsforme") IN
              IF t = "continue"
              THEN pc' = "build" /\ UNCHANGED result
              ELSE Finish(t)
    /\ UNCHANGED <<is_native, kernels, booty_bits, entries, idx, snipFailed, manager>>
    /\ UNCHANGED <<idVars, selVars, inVars, discVars>>

\* Lines 146-157: one entry per discovered kernel
BuildEntries ==
    /\ pc = "build"
    /\ \E id \in I32FromId(sid) :
           entries' = [i \in 1..Len(discovered) |-> BuildEntry(discovered[i], id)]
    /\ log' = log \o [i \in 1..Len(discovered) |-> Call("Entry::new", "ok")]
    /\ idx' = 1
    /\ pc' = "snippets"
    /\ UNCHANGED <<is_native, kernels, booty_bits, discovered, snipFailed, manager, result>>
    /\ UNCHANGED <<idVars, selVars, inVars, discVars>>

\* Lines 158-162: one turn of the loop over entries.iter_mut()
LoadCmdlineSnippets ==
    /\ pc = "snippets"
    /\ idx <= Len(entries)
    /\ \E o \in Outcomes :
           /\ log' = Append(log, Call("load_cmdline_snippets", o))
           /\ IF o = "ok"
              THEN /\ entries' = [entries EXCEPT ![idx].cmdline = Append(@, VendorSnippet)]
                   /\ UNCHANGED snipFailed
              ELSE /\ snipFailed' = snipFailed \cup {idx}
                   /\ UNCHANGED entries
           /\ LET t == OnSnippetResult(o) IN
              IF t = "continue"
              THEN pc' = "snippets" /\ idx' = idx + 1 /\ UNCHANGED result
              ELSE Finish(t) /\ UNCHANGED idx
    /\ UNCHANGED <<is_native, kernels, booty_bits, discovered, manager>>
    /\ UNCHANGED <<idVars, selVars, inVars, discVars>>

\* Lines 165-168: blsforme::Manager::new(&config)
ManagerNew ==
    /\ pc = "snippets"
    /\ idx > Len(entries)
    /\ \E o \in Outcomes :
           /\ log' = Append(log, Call("Manager::new", o))
           /\ IF o = "ok"
              THEN /\ manager' = Some([entries |-> entries, assets |-> booty_bits])
                   /\ pc' = IF is_native THEN "mount" ELSE "sync"
                   /\ UNCHANGED result
              ELSE /\ Finish(OnManagerFailure)
                   /\ UNCHANGED manager
    /\ UNCHANGED <<is_native, kernels, booty_bits, discovered, entries, idx, snipFailed>>
    /\ UNCHANGED <<idVars, selVars, inVars, discVars>>

\* Line 172: manager.mount_partitions()?
MountPartitions ==
    /\ pc = "mount"
    /\ \E o \in Outcomes :
           /\ log' = Append(log, Call("mount_partitions", o))
           /\ LET t == TryMount(o, "Err:Blsforme") IN
              IF t = "continue"
              THEN pc' = "sync" /\ UNCHANGED result
              ELSE Finish(t)
    /\ UNCHANGED <<is_native, kernels, booty_bits, discovered, entries, idx,
                   snipFailed, manager>>
    /\ UNCHANGED <<idVars, selVars, inVars, discVars>>

\* Lines 173, 175 and 178: manager.sync(&schema)?; Ok(())
Sync ==
    /\ pc = "sync"
    /\ \E o \in Outcomes :
           /\ log' = Append(log, Call("sync", o))
           /\ LET t == TrySync(o, "Err:Blsforme") IN
              IF t = "continue" THEN Finish("Ok") ELSE Finish(t)
    /\ UNCHANGED <<is_native, kernels, booty_bits, discovered, entries, idx,
                   snipFailed, manager>>
    /\ UNCHANGED <<idVars, selVars, inVars, discVars>>

Next ==
    \/ Begin
    \/ ReadOsRelease
    \/ ParseOsRelease
    \/ DiscoverSystemKernels
    \/ BuildEntries
    \/ LoadCmdlineSnippets
    \/ ManagerNew
    \/ MountPartitions
    \/ Sync

Spec == Init /\ [][Next]_vars

SpecTag == InitTag /\ [][Next]_vars

\* ------------------------------------------------------------------ properties of synchronize

Called(name) == \E i \in 1..Len(log) : log[i].call = name
Failed(name) == \E i \in 1..Len(log) : log[i].call = name /\ ~log[i].ok
Attempts(name) == Cardinality({i \in 1..Len(log) : log[i].call = name})
IsErr(r) == r \in Errors
Done == pc = "done"

\* C1: when discovery yields no kernel candidate or no boot-loader asset,
\* synchronize returns Ok and performs none of the later steps: no os-release
\* read, no kernel-schema discovery, no entry, no boot manager, no mount, no
\* sync.
C1_EarlyExitIsOk ==
    (pc # "start" /\ (   Len(ExpectedKernels(root, layouts)) = 0
                      \/ Len(ExpectedAssets(root, layouts)) = 0)) =>
        /\ Done /\ result = "Ok"
        /\ log = <<>> /\ entries = <<>> /\ manager = None

\* synchronize returned on a list with a kernel but no boot-loader asset.
C1_Witness ==
    /\ Done /\ result = "Ok" /\ log = <<>>
    /\ Len(kernels) > 0 /\ Len(booty_bits) = 0

\* C2: whenever boot manager construction is reached and fails, synchronize
\* returns Ok, and neither mount_partitions nor sync is invoked, on native
\* and image roots alike.
C2_TopologyFailureIsOk ==
    Failed("Manager::new") =>
        /\ Done /\ result = "Ok"
        /\ ~Called("mount_partitions") /\ ~Called("sync")
        /\ manager = None

\* Manager construction failed on a native root with entries to write.
C2_Witness ==
    /\ Failed("Manager::new") /\ root = NativeRoot /\ Len(entries) > 0 /\ Done

\* C3: on the native root "/" every sync is preceded by mount_partitions in
\* the same run; on any other root mount_partitions is never invoked, and
\* sync is invoked without it once the manager is constructed.
C3_MountOnlyWhenNative ==
    /\ root = NativeRoot =>
           \A i \in 1..Len(log) :
               log[i].call = "sync" =>
                   \E j \in 1..(i - 1) : log[j].call = "mount_partitions"
    /\ root # NativeRoot =>
           /\ ~Called("mount_partitions")
           /\ (Done /\ manager # None) => Called("sync")

\* A native run mounted and then synced.
C3_Witness ==
    /\ root = NativeRoot /\ Done
    /\ Called("mount_partitions") /\ Called("sync")

\* C4: once the boot manager is constructed, synchronize returns Ok only
\* after a sync that succeeded (on a native root, after a mount that
\* succeeded before it); a failed mount ends in Err with sync never invoked;
\* a failed sync ends in Err.
C4_WriteFailuresPropagate ==
    /\ (manager # None /\ Done /\ result = "Ok") =>
           \E i \in 1..Len(log) :
               /\ log[i] = Call("sync", "ok")
               /\ root = NativeRoot =>
                      \E j \in 1..(i - 1) : log[j] = Call("mount_partitions", "ok")
    /\ Failed("mount_partitions") => (Done /\ IsErr(result) /\ ~Called("sync"))
    /\ Failed("sync") => (Done /\ IsErr(result))
    /\ (manager # None /\ Done) => result # "none"

\* Mounting failed after the manager was constructed.
C4_Witness ==
    /\ manager # None /\ Failed("mount_partitions") /\ Done /\ IsErr(result)

FatalSteps == {"read_to_string", "OsRelease::from_str", "discover_system_kernels",
               "mount_partitions", "sync"}

\* C5: synchronize ends in Err only through a failure of reading or parsing
\* os-release, of kernel-schema discovery, of mount or of sync; and when a
\* kernel and an asset were found and reading, parsing or discovery fails, it
\* returns Err with no entry built, no boot manager constructed, and neither
\* mount nor sync invoked.
C5_ErrOnlyFromFatalSteps ==
    /\ (Done /\ IsErr(result)) =>
           /\ Len(log) > 0
           /\ Last(log).call \in FatalSteps
           /\ ~Last(log).ok
    /\ (   Failed("read_to_string") \/ Failed("OsRelease::from_str")
        \/ Failed("discover_system_kernels")) =>
           /\ Len(kernels) > 0 /\ Len(booty_bits) > 0
           /\ Done /\ IsErr(result)
           /\ entries = <<>> /\ ~Called("Entry::new")
           /\ manager = None /\ ~Called("Manager::new")
           /\ ~Called("mount_partitions") /\ ~Called("sync")

\* Kernel-schema discovery failed after os-release was read and parsed.
C5_Witness ==
    /\ Failed("discover_system_kernels") /\ Done /\ result = "Err:Blsforme"

\* C6: whichever entries fail to load their snippets, loading is attempted
\* for every entry, the run ends as it would have without the failures
\* (decided by manager construction, mount and sync alone), and the manager
\* that is constructed and synced holds one entry per discovered kernel, the
\* failing ones included.
C6_SnippetFailureIsolated ==
    snipFailed # {} =>
        /\ pc \in {"snippets", "mount", "sync", "done"}
        /\ pc = "snippets" => Attempts("load_cmdline_snippets") = idx - 1
        /\ pc \in {"mount", "sync", "done"} =>
               /\ Attempts("load_cmdline_snippets") = Len(discovered)
               /\ Called("Manager::new")
        /\ Done =>
               /\ Last(log).call \in {"Manager::new", "mount_partitions", "sync"}
               /\ result = IF Last(log).call = "Manager::new" THEN "Ok"
                           ELSE IF Last(log).ok THEN "Ok" ELSE "Err:Blsforme"
               /\ (result = "Ok" /\ Last(log).call = "sync") => Last(log).ok
        /\ manager # None =>
               /\ Len(manager[1].entries) = Len(discovered)
               /\ \A i \in 1..Len(discovered) :
                      manager[1].entries[i].kernel = discovered[i]
        /\ Called("sync") => manager # None

\* Snippet loading failed for exactly one of three entries (the second) and
\* all three reached a successful sync.
C6_Witness ==
    /\ Len(discovered) = 3 /\ snipFailed = {2}
    /\ Done /\ result = "Ok" /\ Last(log) = Call("sync", "ok")
    /\ Len(manager[1].entries) = 3

\* C7: for every state id of the i64 range, every entry synchronize builds
\* (one per discovered kernel) carries the snippet moss.fstx=<id> with the
\* state's own id in decimal, its state-id field is that id, and it carries
\* no other moss.fstx tag.
C7_EveryEntryTagged ==
    pc \in {"snippets", "mount", "sync", "done"} =>
        /\ Len(entries) = Len(discovered)
        /\ \A i \in 1..Len(entries) :
               /\ entries[i].state_id = Some(sid)
               /\ \E j \in 1..Len(entries[i].cmdline) :
                      entries[i].cmdline[j] =
                          [name |-> FstxName, snippet |-> FstxPrefix \o ToDecimal(sid)]
               /\ \A j \in 1..Len(entries[i].cmdline) :
                      entries[i].cmdline[j].name = FstxName =>
                          entries[i].cmdline[j].snippet = FstxPrefix \o ToDecimal(sid)

====
